---- MODULE Spec2Model ----
(***************************************************************************)
(* Model of the note-taking page with voice capture (NoteApp).            *)
(*                                                                         *)
(* React state is modelled as it is committed: a handler's state updates   *)
(* and the effects of the render they cause form one step.  A handler sees *)
(* the state of the render that created it: the button handlers are those  *)
(* of the latest render, while the callbacks installed by startRecording   *)
(* (the interval callback, the recorder's onstop) keep the closure of the  *)
(* render in which that startRecording was invoked.                        *)
(*                                                                         *)
(* Strings are sequences of one-character strings, so that trim() is       *)
(* computed.  The persisted entry is a serialised value, distinct from the *)
(* list of note records it is made from.                                   *)
(***************************************************************************)
EXTENDS Integers, Sequences, FiniteSets, TLC

\* ------------------------------------------------------------------ bounds
MaxSessions == 2        \* gesture-downs (startRecording invocations) per run
MaxNow == 1             \* clock ticks the run may advance
TickMs == 300           \* milliseconds per clock tick
MaxAdds == 2            \* notes created per run (values crypto.randomUUID() gives out)
MaxReloads == 1         \* page reloads per run
MaxRelayRequests == 2   \* requests the relay serves per run

\* ------------------------------------------------------- program constants
MinHoldMs == 300        \* stopRecording: duration < 300
MinBlobBytes == 1000    \* handleTranscription: blob.size < 1000
AutoStopAt == 29        \* interval callback: prev >= 29
AutoStopValue == 30     \* interval callback: return 30

\* ------------------------------------------------------------ input sets
NoText == <<"undefined">>          \* data.text / data.error absent
Texts == { <<>>, <<" ">>, <<"a">>, <<" ", "a", " ">> }
ChunkSizes == {0, 600, 1000}       \* bytes delivered by one dataavailable event
PriorNote == [id |-> 0, content |-> <<"a">>, createdAt |-> 0]

\* ---------------------------------------------------------- pure helpers
IsSpace(ch) == ch = " "

RECURSIVE TrimStart(_)
TrimStart(s) ==
    IF s = <<>> THEN <<>>
    ELSE IF IsSpace(Head(s)) THEN TrimStart(Tail(s)) ELSE s

RECURSIVE TrimEnd(_)
TrimEnd(s) ==
    IF s = <<>> THEN <<>>
    ELSE IF IsSpace(s[Len(s)]) THEN TrimEnd(SubSeq(s, 1, Len(s) - 1)) ELSE s

\* a trim() that forgets the trailing white space
TrimLeadingOnly(s) == TrimStart(s)

Trim(s) == TrimEnd(TrimStart(s))

RECURSIVE SumSizes(_)
SumSizes(chunks) ==
    IF chunks = <<>> THEN 0 ELSE Head(chunks).size + SumSizes(Tail(chunks))

\* JSON.stringify(notes): an array of serialised objects
Stringify(ns) ==
    [kind |-> "array",
     items |-> [i \in 1..Len(ns) |-> <<ns[i].id, ns[i].content, ns[i].createdAt>>]]

\* a load that takes whatever parses for a list
ParseAnything(p) ==
    IF p.kind = "garbage" THEN [threw |-> TRUE, isArray |-> FALSE, value |-> <<>>]
    ELSE [threw |-> FALSE, isArray |-> TRUE,
          value |-> [i \in 1..Len(p.items) |->
                       [id |-> p.items[i][1], content |-> p.items[i][2],
                        createdAt |-> p.items[i][3]]]]

\* JSON.parse(savedNotes): throws on unparsable text
Parse(p) ==
    IF p.kind = "garbage" THEN [threw |-> TRUE, isArray |-> FALSE, value |-> <<>>]
    ELSE IF p.kind = "array"
    THEN [threw |-> FALSE, isArray |-> TRUE,
          value |-> [i \in 1..Len(p.items) |->
                       [id |-> p.items[i][1], content |-> p.items[i][2],
                        createdAt |-> p.items[i][3]]]]
    ELSE [threw |-> FALSE, isArray |-> FALSE, value |-> <<>>]

Missing == [kind |-> "missing", items |-> <<>>]
Garbage == [kind |-> "garbage", items |-> <<>>]
NonList == [kind |-> "object", items |-> <<>>]

FilterOut(ns, id) == SelectSeq(ns, LAMBDA n : n.id # id)

\* a saveEdit whose map forgets to test the id
MapEditAll(ns, id, c) == [i \in 1..Len(ns) |-> [ns[i] EXCEPT !.content = c]]

MapEdit(ns, id, c) ==
    [i \in 1..Len(ns) |->
        IF ns[i].id = id THEN [ns[i] EXCEPT !.content = c] ELSE ns[i]]

\* ------------------------------------------------------------------ state
VARIABLES
    mount,            \* "unmounted" | "mounted" (effects ran, load update pending) | "ready"
    pendingLoad,      \* <<parsed>> while the load effect's setNotes(parsed) is queued
    notes,            \* useState<Note[]>
    persisted,        \* localStorage entry 'brutalist-notes'
    newNoteContent,   \* useState: draft of the add form
    isAdding,         \* useState
    editingId,        \* useState: -1 stands for null
    editContent,      \* useState
    nextId,           \* next value crypto.randomUUID() returns
    reloads,          \* page loads so far
    isRecording,      \* useState
    isProcessing,     \* useState
    recordingTime,    \* useState
    voiceError,       \* useState: "null" stands for null
    clearPending,     \* a setTimeout(() => setVoiceError(null)) is outstanding
    mediaRecorderRef, \* session whose recorder the ref holds, 0 for null
    audioChunksRef,   \* sequence of [rec, size]: rec is the recorder that produced it
    timerRef,         \* session whose interval id the ref holds, 0 for null
    timers,           \* sessions whose interval is still installed
    startTimeRef,     \* milliseconds
    now,              \* clock, in ticks of TickMs
    micSupported,     \* navigator.mediaDevices.getUserMedia exists
    sess,             \* one record per startRecording invocation
    apiKeySet,        \* process.env.OPENAI_API_KEY is set (server)
    openaiClient,     \* lib/openai.ts: the module's client is not null (server)
    envReads,         \* reads of process.env.OPENAI_API_KEY so far
    getCalls,         \* calls of getOpenAI so far
    relay             \* one record per request the relay has received (server)

storeVars == <<notes, persisted, newNoteContent, isAdding, editingId, editContent, nextId>>
pageVars == <<mount, pendingLoad, reloads>>
voiceVars == <<isRecording, isProcessing, recordingTime, voiceError, clearPending,
               mediaRecorderRef, audioChunksRef, timerRef, timers, startTimeRef, sess>>
envVars == <<now, micSupported>>
relayVars == <<apiKeySet, openaiClient, envReads, getCalls, relay>>
vars == <<storeVars, pageVars, voiceVars, envVars, relayVars>>

DateNow == now * TickMs

Sessions == 1..Len(sess)

\* a recorder's state attribute is 'recording' from start() to stop()
RecorderState(s) == IF sess[s].phase = "recording" THEN "recording" ELSE "inactive"

NoReply == [kind |-> "none", text |-> NoText]

NewSession(phase, closureIsRecording) ==
    [phase |-> phase,               \* position of this invocation and of its recorder
     stream |-> "none",             \* "none" | "live" | "ended" (tracks stopped)
     closureIsRecording |-> closureIsRecording,
                                    \* isRecording as seen by the stopRecording this invocation captured
     hold |-> -1,                   \* duration computed by the stopRecording that ended the gesture
     blob |-> -1,                   \* size of the blob onstop built
     sent |-> 0,                    \* requests to /api/transcribe made for this recorder
     reply |-> NoReply]             \* how its request settled

NoResponse == [status |-> 0, error |-> "", text |-> ""]

InitialPersisted == {Missing, Garbage, NonList, Stringify(<<>>), Stringify(<<PriorNote>>)}

Init ==
    /\ mount = "unmounted"
    /\ pendingLoad = <<>>
    /\ notes = <<>>
    /\ persisted \in InitialPersisted
    /\ newNoteContent = <<>>
    /\ isAdding = FALSE
    /\ editingId = -1
    /\ editContent = <<>>
    /\ nextId = 1
    /\ reloads = 0
    /\ isRecording = FALSE
    /\ isProcessing = FALSE
    /\ recordingTime = 0
    /\ voiceError = "null"
    /\ clearPending = FALSE
    /\ mediaRecorderRef = 0
    /\ audioChunksRef = <<>>
    /\ timerRef = 0
    /\ timers = {}
    /\ startTimeRef = 0
    /\ now = 0
    /\ micSupported \in BOOLEAN
    /\ sess = <<>>
    /\ apiKeySet \in BOOLEAN
    /\ openaiClient = FALSE
    /\ envReads = 0
    /\ getCalls = 0
    /\ relay = <<>>

\* ------------------------------------------------------------- page life
\* first render (notes = []) and its effects: the load effect, then the save effect
Mount ==
    /\ mount = "unmounted"
    /\ LET parsed == Parse(persisted)
           loads == persisted.kind # "missing" /\ ~parsed.threw /\ parsed.isArray
       IN /\ pendingLoad' = IF loads THEN <<parsed.value>> ELSE <<>>
          /\ mount' = IF loads THEN "mounted" ELSE "ready"
    /\ persisted' = Stringify(notes)
    /\ UNCHANGED <<notes, newNoteContent, isAdding, editingId, editContent, nextId,
                   reloads, voiceVars, envVars, relayVars>>

\* the render the load effect's setNotes(parsed) causes, and its save effect
CommitLoad ==
    /\ mount = "mounted"
    /\ notes' = pendingLoad[1]
    /\ persisted' = Stringify(notes')
    /\ pendingLoad' = <<>>
    /\ mount' = "ready"
    /\ UNCHANGED <<newNoteContent, isAdding, editingId, editContent, nextId,
                   reloads, voiceVars, envVars, relayVars>>

\* the page is loaded again: component state, refs, timers, streams and requests go
Reload ==
    /\ mount = "ready"
    /\ reloads < MaxReloads
    /\ reloads' = reloads + 1
    /\ mount' = "unmounted"
    /\ pendingLoad' = <<>>
    /\ notes' = <<>>
    /\ newNoteContent' = <<>>
    /\ isAdding' = FALSE
    /\ editingId' = -1
    /\ editContent' = <<>>
    /\ isRecording' = FALSE
    /\ isProcessing' = FALSE
    /\ recordingTime' = 0
    /\ voiceError' = "null"
    /\ clearPending' = FALSE
    /\ mediaRecorderRef' = 0
    /\ audioChunksRef' = <<>>
    /\ timerRef' = 0
    /\ timers' = {}
    /\ startTimeRef' = 0
    /\ sess' = <<>>
    /\ UNCHANGED <<persisted, nextId, envVars, relayVars>>

\* ------------------------------------------------------------ note store
\* an addNote that puts the new note at the end of the list
AddNoteAppend(content) ==
    LET finalContent == IF content # NoText /\ content # <<>> THEN content ELSE newNoteContent
        newNote == [id |-> nextId, content |-> finalContent, createdAt |-> DateNow]
    IN IF Trim(finalContent) = <<>>
       THEN UNCHANGED storeVars
       ELSE /\ notes' = Append(notes, newNote)
            /\ nextId' = nextId + 1
            /\ newNoteContent' = <<>>
            /\ isAdding' = FALSE
            /\ persisted' = Stringify(notes')
            /\ UNCHANGED <<editingId, editContent>>

\* an addNote without the test for empty content
AddNoteUnchecked(content) ==
    LET finalContent == IF content # NoText /\ content # <<>> THEN content ELSE newNoteContent
        newNote == [id |-> nextId, content |-> finalContent, createdAt |-> DateNow]
    IN /\ notes' = <<newNote>> \o notes
       /\ nextId' = nextId + 1
       /\ newNoteContent' = <<>>
       /\ isAdding' = FALSE
       /\ persisted' = Stringify(notes')
       /\ UNCHANGED <<editingId, editContent>>

\* an addNote that builds on the list its render saw: the notes created since the
\* recording started are not in it
AddNoteOntoStale(content) ==
    LET finalContent == IF content # NoText /\ content # <<>> THEN content ELSE newNoteContent
        newNote == [id |-> nextId, content |-> finalContent, createdAt |-> DateNow]
        stale == SelectSeq(notes, LAMBDA n : n.createdAt <= startTimeRef)
    IN IF Trim(finalContent) = <<>>
       THEN UNCHANGED storeVars
       ELSE /\ notes' = <<newNote>> \o stale
            /\ nextId' = nextId + 1
            /\ newNoteContent' = <<>>
            /\ isAdding' = FALSE
            /\ persisted' = Stringify(notes')
            /\ UNCHANGED <<editingId, editContent>>

\* addNote(content): content = NoText stands for a call without argument
AddNote(content) ==
    LET finalContent == IF content # NoText /\ content # <<>> THEN content ELSE newNoteContent
        newNote == [id |-> nextId, content |-> finalContent, createdAt |-> DateNow]
    IN IF Trim(finalContent) = <<>>
       THEN UNCHANGED storeVars
       ELSE /\ notes' = <<newNote>> \o notes
            /\ nextId' = nextId + 1
            /\ newNoteContent' = <<>>
            /\ isAdding' = FALSE
            /\ persisted' = Stringify(notes')
            /\ UNCHANGED <<editingId, editContent>>

OpenAdd ==
    /\ mount = "ready"
    /\ ~isAdding
    /\ isAdding' = TRUE
    /\ UNCHANGED <<notes, persisted, newNoteContent, editingId, editContent, nextId,
                   pageVars, voiceVars, envVars, relayVars>>

CancelAdd ==
    /\ mount = "ready"
    /\ isAdding
    /\ isAdding' = FALSE
    /\ UNCHANGED <<notes, persisted, newNoteContent, editingId, editContent, nextId,
                   pageVars, voiceVars, envVars, relayVars>>

SetNewNoteContent(c) ==
    /\ mount = "ready"
    /\ isAdding
    /\ c # newNoteContent
    /\ newNoteContent' = c
    /\ UNCHANGED <<notes, persisted, isAdding, editingId, editContent, nextId,
                   pageVars, voiceVars, envVars, relayVars>>

AddNoteManual ==
    /\ mount = "ready"
    /\ isAdding
    /\ nextId <= MaxAdds
    /\ AddNote(NoText)
    /\ UNCHANGED <<pageVars, voiceVars, envVars, relayVars>>

DeleteNote(id) ==
    /\ mount = "ready"
    /\ \E i \in 1..Len(notes) : notes[i].id = id /\ editingId # id
    /\ notes' = FilterOut(notes, id)
    /\ persisted' = Stringify(notes')
    /\ UNCHANGED <<newNoteContent, isAdding, editingId, editContent, nextId,
                   pageVars, voiceVars, envVars, relayVars>>

StartEditing(id) ==
    /\ mount = "ready"
    /\ \E i \in 1..Len(notes) :
          /\ notes[i].id = id
          /\ editingId # id
          /\ editingId' = id
          /\ editContent' = notes[i].content
    /\ UNCHANGED <<notes, persisted, newNoteContent, isAdding, nextId,
                   pageVars, voiceVars, envVars, relayVars>>

SetEditContent(c) ==
    /\ mount = "ready"
    /\ \E i \in 1..Len(notes) : notes[i].id = editingId
    /\ c # editContent
    /\ editContent' = c
    /\ UNCHANGED <<notes, persisted, newNoteContent, isAdding, editingId, nextId,
                   pageVars, voiceVars, envVars, relayVars>>

CancelEdit ==
    /\ mount = "ready"
    /\ \E i \in 1..Len(notes) : notes[i].id = editingId
    /\ editingId' = -1
    /\ UNCHANGED <<notes, persisted, newNoteContent, isAdding, editContent, nextId,
                   pageVars, voiceVars, envVars, relayVars>>

SaveEdit ==
    /\ mount = "ready"
    /\ \E i \in 1..Len(notes) : notes[i].id = editingId
    /\ notes' = MapEdit(notes, editingId, editContent)
    /\ persisted' = Stringify(notes')
    /\ editingId' = -1
    /\ UNCHANGED <<newNoteContent, isAdding, editContent, nextId,
                   pageVars, voiceVars, envVars, relayVars>>

\* --------------------------------------------------------- voice capture
Replies ==
    {[kind |-> "network", text |-> NoText],      \* fetch rejects
     [kind |-> "badjson", text |-> NoText]}      \* response.json() rejects
    \cup {[kind |-> "ok", text |-> t] : t \in Texts \cup {NoText}}
    \cup {[kind |-> "error", text |-> e] : e \in {NoText, <<"e">>}}

\* the button is disabled while isProcessing: it receives no pointer event
ControlEnabled == mount = "ready" /\ ~isProcessing

\* startRecording up to its await (or to its return when the API is missing)
PointerDown ==
    /\ ControlEnabled
    /\ Len(sess) < MaxSessions
    /\ recordingTime' = 0
    /\ startTimeRef' = DateNow
    /\ IF ~micSupported
       THEN /\ voiceError' = "Microphone not supported."
            /\ isRecording' = FALSE
            /\ sess' = Append(sess, NewSession("unsupported", isRecording))
       ELSE /\ voiceError' = "null"
            /\ isRecording' = TRUE
            /\ sess' = Append(sess, NewSession("acquiring", isRecording))
    /\ UNCHANGED <<isProcessing, clearPending, mediaRecorderRef, audioChunksRef,
                   timerRef, timers, storeVars, pageVars, envVars, relayVars>>

\* getUserMedia resolves; startRecording runs to its end.
\* outcome: "ok", or the MediaRecorder constructor or start() throws
GetUserMediaResolve(s, outcome) ==
    /\ sess[s].phase = "acquiring"
    /\ IF outcome = "ok"
       THEN /\ sess' = [sess EXCEPT ![s].phase = "recording", ![s].stream = "live"]
            /\ mediaRecorderRef' = s
            /\ audioChunksRef' = <<>>
            /\ timerRef' = s
            /\ timers' = timers \cup {s}
            /\ UNCHANGED <<voiceError, isRecording>>
       ELSE /\ sess' = [sess EXCEPT ![s].phase = "broken", ![s].stream = "live"]
            /\ IF outcome = "startThrows"
               THEN mediaRecorderRef' = s /\ audioChunksRef' = <<>>
               ELSE UNCHANGED <<mediaRecorderRef, audioChunksRef>>
            /\ voiceError' = "Permission denied."
            /\ isRecording' = FALSE
            /\ UNCHANGED <<timerRef, timers>>
    /\ UNCHANGED <<isProcessing, recordingTime, clearPending, startTimeRef,
                   storeVars, pageVars, envVars, relayVars>>

\* a catch block that reports the error and leaves the recording state set
GetUserMediaRejectStillRecording(s) ==
    /\ sess[s].phase = "acquiring"
    /\ sess' = [sess EXCEPT ![s].phase = "denied"]
    /\ voiceError' = "Permission denied."
    /\ UNCHANGED <<isRecording, isProcessing, recordingTime, clearPending, mediaRecorderRef,
                   audioChunksRef, timerRef, timers, startTimeRef,
                   storeVars, pageVars, envVars, relayVars>>

\* getUserMedia rejects: the catch block
GetUserMediaReject(s) ==
    /\ sess[s].phase = "acquiring"
    /\ sess' = [sess EXCEPT ![s].phase = "denied"]
    /\ voiceError' = "Permission denied."
    /\ isRecording' = FALSE
    /\ UNCHANGED <<isProcessing, recordingTime, clearPending, mediaRecorderRef,
                   audioChunksRef, timerRef, timers, startTimeRef,
                   storeVars, pageVars, envVars, relayVars>>

\* a stopRecording that calls stop() on whatever recorder the ref holds
RecorderInRef(r) == r # 0

\* mediaRecorderRef.current && mediaRecorderRef.current.state === 'recording'
RecorderIsRecording(r) == r # 0 /\ RecorderState(r) = "recording"

\* stopRecording seeing isRecording = seen; recordingTime is left to the caller
StopRecording(seen) ==
    IF ~seen
    THEN UNCHANGED <<isRecording, voiceError, clearPending, timers, sess>>
    ELSE LET duration == DateNow - startTimeRef
             r == mediaRecorderRef
             g == Len(sess)
             stopped == IF RecorderIsRecording(r)
                        THEN [sess EXCEPT ![r].phase = "stopping"] ELSE sess
         IN /\ sess' = IF stopped[g].hold = -1
                       THEN [stopped EXCEPT ![g].hold = duration] ELSE stopped
            /\ isRecording' = FALSE
            /\ timers' = IF timerRef # 0 THEN timers \ {timerRef} ELSE timers
            /\ IF duration < MinHoldMs
               THEN voiceError' = "Hold to record" /\ clearPending' = TRUE
               ELSE UNCHANGED <<voiceError, clearPending>>

PointerUp ==
    /\ ControlEnabled
    /\ StopRecording(isRecording)
    /\ UNCHANGED <<isProcessing, recordingTime, mediaRecorderRef, audioChunksRef,
                   timerRef, startTimeRef, storeVars, pageVars, envVars, relayVars>>

PointerLeave ==
    /\ ControlEnabled
    /\ StopRecording(isRecording)
    /\ UNCHANGED <<isProcessing, recordingTime, mediaRecorderRef, audioChunksRef,
                   timerRef, startTimeRef, storeVars, pageVars, envVars, relayVars>>

\* the interval callback installed by invocation s.  The browser's timer, not
\* Date.now(), drives it: the model does not tie its runs to the ticks of now
TimerTick(s) ==
    /\ s \in timers
    /\ IF recordingTime >= AutoStopAt
       THEN /\ StopRecording(sess[s].closureIsRecording)
            /\ recordingTime' = AutoStopValue
       ELSE /\ recordingTime' = recordingTime + 1
            /\ UNCHANGED <<isRecording, voiceError, clearPending, timers, sess>>
    /\ UNCHANGED <<isProcessing, mediaRecorderRef, audioChunksRef,
                   timerRef, startTimeRef, storeVars, pageVars, envVars, relayVars>>

\* a handleTranscription whose size threshold lost a digit
BlobBelowHundred(blobSize) == blobSize < 100

\* blob.size < 1000
BlobTooSmall(blobSize) == blobSize < MinBlobBytes

\* the task stop() queued: dataavailable with the recorded bytes, then onstop up to
\* the await inside handleTranscription, or to its end when the blob is too small
RecorderStopTask(s, size) ==
    /\ sess[s].phase = "stopping"
    /\ LET chunks == IF size > 0
                     THEN Append(audioChunksRef, [rec |-> s, size |-> size])
                     ELSE audioChunksRef
           blobSize == SumSizes(chunks)
       IN /\ audioChunksRef' = chunks
          /\ IF BlobTooSmall(blobSize)
             THEN /\ sess' = [sess EXCEPT ![s].phase = "closed", ![s].blob = blobSize,
                                          ![s].stream = "ended"]
                  /\ UNCHANGED isProcessing
             ELSE /\ sess' = [sess EXCEPT ![s].phase = "transcribing", ![s].blob = blobSize,
                                          ![s].sent = @ + 1]
                  /\ isProcessing' = TRUE
    /\ UNCHANGED <<isRecording, recordingTime, voiceError, clearPending, mediaRecorderRef,
                   timerRef, timers, startTimeRef, storeVars, pageVars, envVars, relayVars>>

\* a handleTranscription whose catch block does not clear the flag
FetchSettleCatchKeepsFlag(s, reply) ==
    /\ sess[s].phase = "transcribing"
    /\ sess' = [sess EXCEPT ![s].phase = "closed", ![s].reply = reply, ![s].stream = "ended"]
    /\ isProcessing' = IF reply.kind = "ok" THEN FALSE ELSE isProcessing
    /\ LET text == IF reply.text = NoText THEN NoText ELSE Trim(reply.text)
       IN IF reply.kind = "ok" /\ text # NoText /\ text # <<>>
          THEN /\ nextId <= MaxAdds
               /\ AddNote(text)
               /\ UNCHANGED <<voiceError, clearPending>>
          ELSE /\ IF reply.kind = "ok"
                  THEN voiceError' = "Couldn't hear clearly" /\ clearPending' = TRUE
                  ELSE voiceError' = "Processing failed" /\ UNCHANGED clearPending
               /\ UNCHANGED storeVars
    /\ UNCHANGED <<isRecording, recordingTime, mediaRecorderRef, audioChunksRef,
                   timerRef, timers, startTimeRef, pageVars, envVars, relayVars>>

\* the request settles: the rest of handleTranscription, then the rest of onstop
FetchSettle(s, reply) ==
    /\ sess[s].phase = "transcribing"
    /\ sess' = [sess EXCEPT ![s].phase = "closed", ![s].reply = reply, ![s].stream = "ended"]
    /\ isProcessing' = FALSE
    /\ LET text == IF reply.text = NoText THEN NoText ELSE Trim(reply.text)
       IN IF reply.kind = "ok" /\ text # NoText /\ text # <<>>
          THEN /\ nextId <= MaxAdds
               /\ AddNote(text)
               /\ UNCHANGED <<voiceError, clearPending>>
          ELSE /\ IF reply.kind = "ok"
                  THEN voiceError' = "Couldn't hear clearly" /\ clearPending' = TRUE
                  ELSE voiceError' = "Processing failed" /\ UNCHANGED clearPending
               /\ UNCHANGED storeVars
    /\ UNCHANGED <<isRecording, recordingTime, mediaRecorderRef, audioChunksRef,
                   timerRef, timers, startTimeRef, pageVars, envVars, relayVars>>

\* a pending setTimeout(() => setVoiceError(null)) fires
ErrorTimeout ==
    /\ clearPending
    /\ voiceError' = "null"
    /\ clearPending' \in BOOLEAN
    /\ UNCHANGED <<isRecording, isProcessing, recordingTime, mediaRecorderRef,
                   audioChunksRef, timerRef, timers, startTimeRef, sess,
                   storeVars, pageVars, envVars, relayVars>>

\* the DISMISS button
Dismiss ==
    /\ mount = "ready"
    /\ voiceError # "null"
    /\ voiceError' = "null"
    /\ UNCHANGED <<isRecording, isProcessing, recordingTime, clearPending, mediaRecorderRef,
                   audioChunksRef, timerRef, timers, startTimeRef, sess,
                   storeVars, pageVars, envVars, relayVars>>

\* time passes: Date.now() moves on by one tick; the model's clock stops at MaxNow
Advance ==
    /\ now < MaxNow
    /\ now' = now + 1
    /\ UNCHANGED <<micSupported, storeVars, pageVars, voiceVars, relayVars>>

\* ---------------------------------------------------------- specifications
PageNext == Mount \/ CommitLoad \/ Reload

StoreNext ==
    \/ OpenAdd
    \/ CancelAdd
    \/ \E c \in Texts : SetNewNoteContent(c)
    \/ AddNoteManual
    \/ \E id \in 0..nextId : DeleteNote(id)
    \/ \E id \in 0..nextId : StartEditing(id)
    \/ \E c \in Texts : SetEditContent(c)
    \/ CancelEdit
    \/ SaveEdit

VoiceNext ==
    \/ PointerDown
    \/ \E s \in Sessions : \E o \in {"ok", "ctorThrows", "startThrows"} : GetUserMediaResolve(s, o)
    \/ \E s \in Sessions : GetUserMediaReject(s)
    \/ PointerUp
    \/ PointerLeave
    \/ \E s \in Sessions : TimerTick(s)
    \/ \E s \in Sessions : \E size \in ChunkSizes : RecorderStopTask(s, size)
    \/ \E s \in Sessions : \E reply \in Replies : FetchSettle(s, reply)
    \/ ErrorTimeout
    \/ Dismiss

\* ------------------------------------------------------------- the relay (server)
\* A request body either cannot be parsed as form data, or is form data without a
\* file field, or is form data with one.
Bodies == {"unparsable", "nofile", "file"}

MissingKeyMessage == "Missing OPENAI_API_KEY environment variable"

InvalidKeyMessage == "Invalid OpenAI API Key. Please check your Secrets."

\* What the handler's catch block receives: an Error with a message and, for the
\* upstream client's API errors, a numeric status (0 stands for no status property).
Thrown(status, message) == [status |-> status, message |-> message]

UpstreamErrors == [status : {0, 401, 429, 503}, message : {"upstream message", "timeout"}]

UpstreamTexts == {"", "hello"}

UpstreamOutcomes ==
    [kind : {"ok"}, text : UpstreamTexts, error : {Thrown(0, "")}]
    \cup [kind : {"error"}, text : {""}, error : UpstreamErrors]

Requests == 1..MaxRelayRequests

\* getOpenAI with the cache check removed: every call reads the environment
GetOpenAIUncached ==
    IF ~apiKeySet
    THEN [threw |-> TRUE, client |-> FALSE, reads |-> 1]
    ELSE [threw |-> FALSE, client |-> TRUE, reads |-> 1]

\* getOpenAI(): the outcome of one call in the current state
GetOpenAI ==
    IF openaiClient
    THEN [threw |-> FALSE, client |-> TRUE, reads |-> 0]
    ELSE IF ~apiKeySet
         THEN [threw |-> TRUE, client |-> FALSE, reads |-> 1]
         ELSE [threw |-> FALSE, client |-> TRUE, reads |-> 1]

\* the status passthrough dropped: every failure is a 500
StatusAlways500(error) == 500

\* catch block: statusCode
StatusCode(error) == IF error.status # 0 THEN error.status ELSE 500

\* catch block: errorMessage
ErrorMessage(error) == IF error.status = 401 THEN InvalidKeyMessage ELSE error.message

Failure(error) == [status |-> StatusCode(error), error |-> ErrorMessage(error), text |-> ""]

\* the client obtained before the file check
ObtainsClientAlways(body) == body # "unparsable"

\* getOpenAI() is called only past the file check
ObtainsClient(body) == body = "file"

\* POST, up to its response or to the upstream call it awaits
RelayPost(body) ==
    /\ Len(relay) < MaxRelayRequests
    /\ LET calls == ObtainsClient(body)
           got == GetOpenAI
           resp == IF body = "unparsable"
                   THEN Failure(Thrown(0, "Failed to parse body as FormData."))
                   ELSE IF calls /\ got.threw
                        THEN Failure(Thrown(0, MissingKeyMessage))
                        ELSE IF body = "nofile"
                             THEN [status |-> 400, error |-> "No audio file provided",
                                   text |-> ""]
                             ELSE NoResponse
           awaits == resp = NoResponse
       IN /\ getCalls' = IF calls THEN getCalls + 1 ELSE getCalls
          /\ envReads' = IF calls THEN envReads + got.reads ELSE envReads
          /\ openaiClient' = IF calls THEN got.client ELSE openaiClient
          /\ relay' = Append(relay, [pc |-> IF awaits THEN "upstream" ELSE "responded",
                                     body |-> body,
                                     upstream |-> IF awaits THEN 1 ELSE 0,
                                     outcome |-> [kind |-> "none", text |-> "",
                                                  error |-> Thrown(0, "")],
                                     resp |-> resp])
    /\ UNCHANGED <<apiKeySet, storeVars, pageVars, voiceVars, envVars>>

\* POST resumes when openai.audio.transcriptions.create settles
UpstreamSettle(r, outcome) ==
    /\ r \in DOMAIN relay
    /\ relay[r].pc = "upstream"
    /\ relay' = [relay EXCEPT ![r].pc = "responded",
                              ![r].outcome = outcome,
                              ![r].resp = IF outcome.kind = "ok"
                                          THEN [status |-> 200, error |-> "",
                                                text |-> outcome.text]
                                          ELSE Failure(outcome.error)]
    /\ UNCHANGED <<apiKeySet, openaiClient, envReads, getCalls,
                   storeVars, pageVars, voiceVars, envVars>>

RelayNext ==
    \/ \E body \in Bodies : RelayPost(body)
    \/ \E r \in Requests : \E outcome \in UpstreamOutcomes : UpstreamSettle(r, outcome)

Next == PageNext \/ StoreNext \/ VoiceNext \/ RelayNext \/ Advance

\* the whole page
Spec == Init /\ [][Next]_vars

\* the voice capture controller on a page that starts with nothing stored, with no
\* manual edits of the note list and no reload
VoiceInit == Init /\ persisted = Missing /\ apiKeySet

VoiceSpec == VoiceInit /\ [][Mount \/ VoiceNext \/ Advance]_vars

\* the note store and its persistence, with the voice control untouched
StoreInit == Init /\ apiKeySet

StoreSpec == StoreInit /\ [][PageNext \/ StoreNext \/ Advance]_vars

\* the relay alone, in a process started with or without the credential
RelayInit == Init /\ persisted = Missing /\ micSupported

RelaySpec == RelayInit /\ [][RelayNext]_vars

\* ------------------------------------------------------------- properties
Awaiting == {"acquiring", "stopping", "transcribing"}

HeldStreams == {s \in Sessions : sess[s].stream = "live"}

\* the gesture of the latest gesture-down has been ended by a stopRecording that ran
Released == sess # <<>> /\ sess[Len(sess)].hold # -1

\* C1: a session whose hold duration is below 300 ms never sends a request to
\* /api/transcribe.  (As stated; the code stops the recorder before it looks at the
\* duration, and onstop transcribes whatever was captured.)
C1_ShortHoldSendsNothing ==
    \A s \in Sessions :
        (sess[s].hold # -1 /\ sess[s].hold < MinHoldMs) => sess[s].sent = 0

\* C2: no microphone stream is still held once the controller is idle (not recording,
\* not processing, no acquisition, stop task or request outstanding).  (As stated; the
\* code stops the tracks only at the end of onstop.)
C2_NoStreamHeldWhenIdle ==
    (/\ ~isRecording
     /\ ~isProcessing
     /\ \A s \in Sessions : sess[s].phase \notin Awaiting)
    => HeldStreams = {}

\* C3: at most one stream/recorder is acquired or being acquired, at most one request
\* is in flight, and no session is acquiring or recording while a request is
\* outstanding.  (As stated; only isProcessing disables the control.)
C3_OneSessionOneRequest ==
    /\ Cardinality({s \in Sessions : sess[s].phase = "acquiring" \/ sess[s].stream = "live"}) <= 1
    /\ Cardinality({s \in Sessions : sess[s].phase = "transcribing"}) <= 1
    /\ \A s, r \in Sessions :
          sess[s].phase = "transcribing" => sess[r].phase \notin {"acquiring", "recording"}

\* C4: once the elapsed-time counter has reached the 30-second ceiling the session is
\* stopped as by a release: not recording, no recorder running, no timer installed.
\* (As stated; the stopRecording the interval callback calls sees the isRecording of
\* the render that started the recording.)
C4_AutoStopAtCeiling ==
    recordingTime = AutoStopValue =>
        /\ ~isRecording
        /\ \A s \in Sessions : sess[s].phase # "recording"
        /\ timers = {}

\* C5: the microphone is never still held while a transcription request is
\* outstanding.  (As stated; onstop awaits handleTranscription before stopping the
\* tracks.)
C5_MicReleasedBeforeResponse ==
    \A s \in Sessions : sess[s].phase = "transcribing" => sess[s].stream # "live"

\* C6: a recorder sends at most one request, and exactly one once its onstop has
\* built a blob of sufficient size, whatever releases, repeated stops and failed
\* replies follow; a blob too small sends none.
C6_ExactlyOneRequest ==
    \A s \in Sessions :
        /\ sess[s].sent <= 1
        /\ sess[s].blob >= MinBlobBytes => sess[s].sent = 1
        /\ sess[s].reply.kind # "none" => sess[s].sent = 1

\* a held session (hold of at least 300 ms) with a large enough blob whose request
\* failed and was left at that
C6_Witness ==
    \E s \in Sessions :
        /\ sess[s].hold >= MinHoldMs
        /\ sess[s].blob >= MinBlobBytes
        /\ sess[s].phase = "closed"
        /\ sess[s].reply.kind \in {"network", "error"}
        /\ sess[s].sent = 1
        /\ ~isRecording

\* C7: from the release until the next gesture-down no recorder is recording and no
\* tick timer is installed.  (As stated; a release that precedes the end of the
\* acquisition stops nothing, and the recorder and the timer start afterwards.)
C7_StoppedAfterRelease ==
    Released =>
        /\ \A s \in Sessions : sess[s].phase # "recording"
        /\ timers = {}

\* C8: when onstop builds a blob under 1000 bytes, handleTranscription sends no
\* request, leaves isProcessing as it is and creates no note, and no request is
\* ever sent for that blob later.
C8_SmallBlobSendsNothing ==
    [][\A s \in Sessions :
          (s \in DOMAIN sess' /\ sess'[s].blob # -1 /\ sess'[s].blob < MinBlobBytes)
          => /\ sess'[s].sent = 0
             /\ sess'[s].reply = NoReply
             /\ sess'[s].phase = "closed"
             /\ sess[s].blob = -1 => (isProcessing' = isProcessing /\ notes' = notes)
      ]_vars

\* a recorder delivered bytes, but fewer than the threshold, and nothing was sent
C8_Witness ==
    \E s \in Sessions :
        /\ sess[s].blob > 0
        /\ sess[s].blob < MinBlobBytes
        /\ sess[s].phase = "closed"
        /\ sess[s].sent = 0

Spaces(n) == [i \in 1..n |-> " "]

\* t is raw without its leading and trailing white space, and is not empty
IsNonEmptyTrimOf(t, raw) ==
    /\ t # <<>>
    /\ ~IsSpace(t[1])
    /\ ~IsSpace(t[Len(t)])
    /\ \E i, j \in 0..Len(raw) : raw = Spaces(i) \o t \o Spaces(j)

OnlySpaces(raw) == \A i \in 1..Len(raw) : IsSpace(raw[i])

\* C9: when a request settles with a successful response, then if its text is
\* absent, empty or white space only the note list is unchanged and the hint
\* "Couldn't hear clearly" is shown; otherwise exactly one note is prepended, whose
\* content is the text without its leading and trailing white space.
C9_EmptyTextNoNote ==
    [][\A s \in Sessions :
          (/\ sess[s].phase = "transcribing"
           /\ s \in DOMAIN sess'
           /\ sess'[s].phase = "closed"
           /\ sess'[s].reply.kind = "ok")
          => LET raw == sess'[s].reply.text
             IN IF raw = NoText \/ OnlySpaces(raw)
                THEN notes' = notes /\ voiceError' = "Couldn't hear clearly"
                ELSE /\ Len(notes') = Len(notes) + 1
                     /\ Tail(notes') = notes
                     /\ IsNonEmptyTrimOf(notes'[1].content, raw)
      ]_vars

\* one response was white space only and left the list alone with the hint shown; an
\* earlier one carried " a " and became the note "a"
C9_Witness ==
    /\ Len(notes) = 1
    /\ notes[1].content = <<"a">>
    /\ voiceError = "Couldn't hear clearly"
    /\ \E s, r \in Sessions :
          /\ sess[s].phase = "closed"
          /\ sess[s].reply = [kind |-> "ok", text |-> <<" ", "a", " ">>]
          /\ sess[r].phase = "closed"
          /\ sess[r].reply = [kind |-> "ok", text |-> <<" ">>]

\* what the entry held when the page began to load
StoredAtStartup ==
    IF mount = "unmounted" THEN Parse(persisted).value
    ELSE IF mount = "mounted" THEN pendingLoad[1]
    ELSE notes

\* C10: the persisted entry always parses to the current list once the page is
\* ready, and during startup it never holds fewer notes than were stored before.
\* (As stated; the save effect of the first render writes the empty list before the
\* loaded notes are rendered.)
C10_PersistenceRoundTrip ==
    /\ mount = "ready" => Parse(persisted).value = notes
    /\ mount # "ready" => Len(Parse(persisted).value) >= Len(StoredAtStartup)

\* ns without its i-th element
Without(ns, i) == SubSeq(ns, 1, i - 1) \o SubSeq(ns, i + 1, Len(ns))

Positions(ns, id) == {i \in 1..Len(ns) : ns[i].id = id}

\* C11: add prepends one new note with the given content; edit replaces the content
\* of the note with the id and nothing else (ids, timestamps, positions and the other
\* notes stay); delete removes exactly the note with the id and keeps the order of
\* the rest; edit and delete of an id that is not in the list change nothing.
C11_StoreOperations ==
    [][/\ (AddNoteManual /\ ~OnlySpaces(newNoteContent))
          => /\ Tail(notes') = notes
             /\ Head(notes').content = newNoteContent
             /\ Positions(notes, Head(notes').id) = {}
       /\ SaveEdit
          => /\ Len(notes') = Len(notes)
             /\ \A i \in 1..Len(notes) :
                   /\ notes'[i].id = notes[i].id
                   /\ notes'[i].createdAt = notes[i].createdAt
                   /\ notes'[i].content =
                        IF notes[i].id = editingId THEN editContent ELSE notes[i].content
       /\ \A id \in 0..nextId :
             /\ DeleteNote(id)
                => \E i \in Positions(notes, id) :
                      Positions(notes, id) = {i} /\ notes' = Without(notes, i)
             /\ Positions(notes, id) = {}
                => \A c \in Texts : MapEdit(notes, id, c) = notes /\ FilterOut(notes, id) = notes
      ]_vars

\* two notes, the older of which was edited to white space (an add refuses that
\* content) and kept its place
C11_Witness ==
    /\ Len(notes) = 2
    /\ notes[1].content = <<"a">>
    /\ notes[2].content = <<" ">>
    /\ notes[1].id > notes[2].id

\* the note list under both of its writers: the forms of the page and completed
\* transcriptions, on a page that had one note stored, with one text per input
NotesInit == Init /\ persisted = Stringify(<<PriorNote>>) /\ micSupported /\ apiKeySet

EditNext ==
    \/ OpenAdd
    \/ SetNewNoteContent(<<" ", "a", " ">>)
    \/ AddNoteManual
    \/ \E id \in 0..nextId : DeleteNote(id)
    \/ \E id \in 0..nextId : StartEditing(id)
    \/ SetEditContent(<<" ">>)
    \/ SaveEdit

TranscribeNext ==
    \/ PointerDown
    \/ \E s \in Sessions : GetUserMediaResolve(s, "ok")
    \/ PointerUp
    \/ \E s \in Sessions : RecorderStopTask(s, MinBlobBytes)
    \/ \E s \in Sessions : FetchSettle(s, [kind |-> "ok", text |-> <<"a">>])

NotesSpec == NotesInit /\ [][Mount \/ CommitLoad \/ EditNext \/ TranscribeNext \/ Advance]_vars

\* C12: in every reachable state the ids of the list are pairwise distinct and the
\* list is in order of creation, most recent first (ids are handed out in order of
\* creation, timestamps never increase down the list), whatever was edited.
C12_UniqueAndNewestFirst ==
    \A i, j \in 1..Len(notes) :
        i < j => /\ notes[i].id # notes[j].id
                 /\ notes[i].id > notes[j].id
                 /\ notes[i].createdAt >= notes[j].createdAt

\* the stored note, edited, below a transcribed note, below a typed one
C12_Witness ==
    /\ Len(notes) = 3
    /\ notes[1].content = <<" ", "a", " ">>
    /\ notes[2].content = <<"a">>
    /\ notes[2].id # 0
    /\ notes[3].id = 0
    /\ notes[3].content = <<" ">>
    /\ notes[1].createdAt > notes[3].createdAt

\* C13: an add whose content is empty or white space only creates no note: the list,
\* the persisted entry and the supply of ids are as before.
C13_BlankAddIsNoOp ==
    [][(AddNoteManual /\ OnlySpaces(newNoteContent))
       => /\ notes' = notes
          /\ persisted' = persisted
          /\ nextId' = nextId
          /\ isAdding' = isAdding
      ]_vars

\* the add form is open on a draft of one space, over a list of one note that the
\* entry holds: the state in which such an add is made, and in which it leaves the page
C13_Witness ==
    /\ mount = "ready"
    /\ isAdding
    /\ newNoteContent = <<" ">>
    /\ Len(notes) = 1
    /\ Parse(persisted).value = notes
    /\ ENABLED AddNoteManual

Unusable == {"missing", "garbage", "object"}

\* C14: when the entry is missing, unparsable or not a list, mounting ends at once
\* in the ready page with an empty list, nothing pending and the entry rewritten as
\* the empty list, all else as constructed: the state an empty stored list leads to,
\* so every later add, edit and delete goes as on an empty store.
C14_BestEffortLoad ==
    [][(mount = "unmounted" /\ persisted.kind \in Unusable /\ mount' # mount)
       => /\ mount' = "ready"
          /\ notes' = <<>>
          /\ pendingLoad' = <<>>
          /\ persisted' = Stringify(<<>>)
          /\ UNCHANGED <<newNoteContent, isAdding, editingId, editContent, nextId,
                         reloads, voiceVars, envVars, relayVars>>
      ]_vars

\* the first page load has ended with an empty list and a rewritten entry, and the
\* add form has been opened on it
C14_Witness ==
    /\ mount = "ready"
    /\ reloads = 0
    /\ nextId = 1
    /\ notes = <<>>
    /\ persisted = Stringify(<<>>)
    /\ isAdding
    /\ newNoteContent = <<"a">>

\* answered(r): request r has its response
Answered(r) == r \in DOMAIN relay /\ relay[r].pc = "responded"

\* C15: a request whose form data has no file field is answered at once with 400 and
\* {error: "No audio file provided"}; handling it makes no call of getOpenAI, reads
\* no credential, creates no client and makes no upstream call, and the request is
\* never touched again.
C15_MissingFileIs400 ==
    [][/\ \A r \in Requests :
            (Len(relay) = r - 1 /\ Len(relay') = r /\ relay'[r].body = "nofile")
            => /\ relay'[r].pc = "responded"
               /\ relay'[r].resp = [status |-> 400, error |-> "No audio file provided",
                                    text |-> ""]
               /\ relay'[r].upstream = 0
               /\ getCalls' = getCalls
               /\ envReads' = envReads
               /\ openaiClient' = openaiClient
       /\ \A r \in DOMAIN relay : relay[r].body = "nofile" => relay'[r] = relay[r]
      ]_vars

C15_Witness ==
    /\ ~apiKeySet
    /\ Len(relay) = 1
    /\ relay[1].body = "nofile"
    /\ relay[1].resp.status = 400
    /\ getCalls = 0

\* C16: a request whose upstream call failed is answered with the error's status
\* where it has one and with 500 otherwise, and with the error's message, except
\* that a 401 keeps its status and carries the invalid-key message; a request whose
\* upstream call succeeded is answered 2xx with the transcript as text; no request
\* makes more than one upstream call.
C16_FailureMapping ==
    \A r \in DOMAIN relay :
        /\ relay[r].upstream <= 1
        /\ (Answered(r) /\ relay[r].outcome.kind = "error")
           => LET e == relay[r].outcome.error
              IN /\ relay[r].upstream = 1
                 /\ relay[r].resp.status = (IF e.status # 0 THEN e.status ELSE 500)
                 /\ relay[r].resp.error = (IF e.status = 401 THEN InvalidKeyMessage
                                                                ELSE e.message)
        /\ (Answered(r) /\ relay[r].outcome.kind = "ok")
           => /\ relay[r].upstream = 1
              /\ relay[r].resp.status \in 200..299
              /\ relay[r].resp.text = relay[r].outcome.text
              /\ relay[r].resp.error = ""

C16_Witness ==
    /\ Len(relay) = 2
    /\ Answered(1) /\ relay[1].outcome.kind = "error" /\ relay[1].resp.status = 401
    /\ Answered(2) /\ relay[2].outcome.kind = "error" /\ relay[2].outcome.error.status = 0
    /\ relay[2].resp.status = 500

\* the requests answered with the missing-credential message
MissingKeyReports == {r \in DOMAIN relay : Answered(r) /\ relay[r].resp.error = MissingKeyMessage}

\* C17 as stated: the environment is read once at most, and a missing credential is
\* not detected and reported anew by each request.
C17_NotPerRequest ==
    /\ envReads <= 1
    /\ Cardinality(MissingKeyReports) <= 1

\* C17 as amended: with the credential set, the first call of getOpenAI reads the
\* environment and creates the client and no later call reads it again; with the
\* credential absent there is never a client, every call reads the environment
\* again, and every request that carries a file is answered 500 with the
\* missing-credential message.
C17_CredentialCaching ==
    /\ apiKeySet => /\ envReads = (IF getCalls = 0 THEN 0 ELSE 1)
                    /\ openaiClient = (getCalls > 0)
                    /\ MissingKeyReports = {}
    /\ ~apiKeySet => /\ envReads = getCalls
                     /\ ~openaiClient
                     /\ \A r \in DOMAIN relay :
                            relay[r].body = "file"
                            => /\ Answered(r)
                               /\ relay[r].upstream = 0
                               /\ relay[r].resp.status = 500
                               /\ r \in MissingKeyReports

C17_Witness == apiKeySet /\ getCalls = 2 /\ envReads = 1 /\ openaiClient

DeviceFailed == {"denied", "unsupported"}

DeviceMessage(phase) ==
    IF phase = "unsupported" THEN "Microphone not supported." ELSE "Permission denied."

RECURSIVE Shown(_)
Shown(text) == IF text = <<>> THEN "" ELSE Head(text) \o Shown(Tail(text))

\* C19: when the request of a session settles as a failure whose body carries a
\* message, the error shown is that message; any failed request shows an error; a
\* successful response without usable text shows the self-clearing hint; and none of
\* these creates a note.
C19_ErrorSurfacing ==
    [][\A s \in DOMAIN sess :
         (sess[s].phase = "transcribing" /\ sess'[s].phase = "closed")
         => LET reply == sess'[s].reply
            IN /\ (reply.kind = "error" /\ reply.text # NoText)
                  => voiceError' = Shown(reply.text)
               /\ reply.kind # "ok"
                  => voiceError' # "null" /\ notes' = notes
               /\ (reply.kind = "ok" /\ (reply.text = NoText \/ Trim(reply.text) = <<>>))
                  => /\ voiceError' = "Couldn't hear clearly"
                     /\ clearPending'
                     /\ notes' = notes
      ]_vars

\* C20: when the stop callback of session s builds its blob, the buffer holds the
\* chunks of s's recorder and no chunk of another recorder, and the blob is exactly
\* as large as the chunks s recorded.
C20_BufferIsolation ==
    [][\A s \in DOMAIN sess :
         (sess[s].phase = "stopping" /\ sess'[s].phase # "stopping")
         => /\ \A i \in DOMAIN audioChunksRef' : audioChunksRef'[i].rec = s
            /\ sess'[s].blob = SumSizes(SelectSeq(audioChunksRef', LAMBDA c : c.rec = s))
      ]_vars

\* C21: when the request of a session settles with a usable transcript, the new note
\* is put in front of the list as it is at that moment: below it the list is the
\* list of the state before, with every add, edit and deletion made since the
\* recording started, and the persisted entry is that new list.
C21_PrependedToCurrentList ==
    [][\A s \in DOMAIN sess :
         (/\ sess[s].phase = "transcribing"
          /\ sess'[s].phase = "closed"
          /\ sess'[s].reply.kind = "ok"
          /\ sess'[s].reply.text # NoText
          /\ Trim(sess'[s].reply.text) # <<>>)
         => /\ Len(notes') = Len(notes) + 1
            /\ Tail(notes') = notes
            /\ Head(notes').content = Trim(sess'[s].reply.text)
            /\ Head(notes').id = nextId
            /\ persisted' = Stringify(notes')
      ]_vars

\* one recording, completed: below its note is a note typed after the recording
\* started, and the stored note was deleted
C21_Witness ==
    /\ Len(sess) = 1
    /\ sess[1].phase = "closed"
    /\ sess[1].reply.kind = "ok"
    /\ Len(notes) = 2
    /\ notes[1].id = 2
    /\ notes[1].content = <<"a">>
    /\ notes[2].id = 1
    /\ notes[2].createdAt > startTimeRef

\* the sessions whose request is outstanding
Outstanding == {s \in DOMAIN sess : sess[s].phase = "transcribing"}

\* C22: the step at which a request settles, however it settles, leaves isProcessing
\* false and the record button enabled; and in every state reached isProcessing is
\* true only if some request is outstanding.
C22_FlagAlwaysCleared ==
    [][/\ \A s \in DOMAIN sess :
            (sess[s].phase = "transcribing" /\ sess'[s].phase = "closed")
            => /\ sess'[s].reply.kind \in {"ok", "error", "network", "badjson"}
               /\ ~isProcessing'
               /\ ControlEnabled'
       /\ isProcessing' => \E s \in DOMAIN sess' : sess'[s].phase = "transcribing"
      ]_vars

\* a request that failed on the network, and the next gesture already accepted
C22_Witness ==
    /\ Len(sess) = 2
    /\ sess[1].phase = "closed"
    /\ sess[1].reply.kind = "network"
    /\ sess[2].phase = "acquiring"
    /\ sess[2].closureIsRecording = FALSE
    /\ ~isProcessing

====
